---- MODULE Spec2Model ----
(***************************************************************************)
(* YaTA chat client: the Channel container's outbound command surface      *)
(* (sendMessage, say, whisper, handleAction, timeout, ban, mode toggles),  *)
(* the whisper-command patterns of Channel and Libs/Twitch, and the        *)
(* connection life cycle and room-state tracker the container reads.       *)
(*                                                                         *)
(* Strings are sequences of one-character strings; "NL" stands for a line  *)
(* terminator.  An async function is one action up to its first await on   *)
(* the chat client (JavaScript runs that prefix synchronously) and one     *)
(* action for its continuation once the client's promise has settled.      *)
(***************************************************************************)
EXTENDS Integers, Sequences, FiniteSets, TLC

(* ------------------------------ bounds -------------------------------- *)

\* Number of entry-point calls followed in one behaviour.
MaxCalls == 2

\* Longest typed input drawn by InitInput.
MaxLen == 7

\* Number of Twitch.fetch calls followed in one behaviour.
MaxFetches == 2

\* Longest history drawn by InitHistory.
MaxHistory == 3

\* Number of reconnection attempts before the connection gives up
\* ("fixed small number of attempts"; the number itself is not specified).
ReconnectAttempts == 2

(* ----------------------------- constants ------------------------------ *)

\* toggleSlowMode: client.slow(channel, 120)
TwitchSlowDefault == 120

\* null / undefined of a string-valued field (no character is "NULL").
NullStr == <<"NULL">>

isNil(x) == x = NullStr

\* ReadyState values of the chat client (Constants/readyState).
Open == "OPEN"
Connecting == "CONNECTING"
Closed == "CLOSED"

\* Representative arguments of the moderation commands.
TheChannel == <<"c">>
Users == {<<"b">>}
Durations == {600}

(* ------------------------------ strings ------------------------------- *)

\* The characters typed inputs are drawn from: the two of the command prefix
\* ("w" is also the letter of names and messages), the space, a line terminator.
Chars == {"/", "w", " ", "NL"}

\* \s of the JavaScript patterns: the space and the line terminator here.
IsWhitespace(c) == c \in {" ", "NL"}

\* What '.' does not match.
IsLineTerminator(c) == c = "NL"

SubStr(s, from, to) == [i \in 1..(to - from + 1) |-> s[from + i - 1]]

StartsWith(s, p) == Len(s) >= Len(p) /\ SubStr(s, 1, Len(p)) = p

Max(S) == CHOOSE x \in S : \A y \in S : y <= x

RECURSIVE StringsUpTo(_)
StringsUpTo(n) ==
  IF n = 0 THEN {<<>>}
  ELSE LET shorter == StringsUpTo(n - 1)
       IN shorter \cup {Append(s, c) : s \in {t \in shorter : Len(t) = n - 1}, c \in Chars}

\* The ways the pattern  ^\/w \S+ .+  can match s: k is the length taken by
\* \S+ (every character non-whitespace), followed by one space and at least
\* one character that '.' matches.
WhisperSplits(s) ==
  {k \in 1..Len(s) :
     /\ StartsWith(s, <<"/", "w", " ">>)
     /\ Len(s) >= 3 + k + 2
     /\ \A i \in 4..(3 + k) : ~IsWhitespace(s[i])
     /\ s[3 + k + 1] = " "
     /\ ~IsLineTerminator(s[3 + k + 2])}

\* Length of the longest run '.+' takes from position p (greedy).
DotRun(s, p) ==
  Max({n \in 0..(Len(s) - p + 1) : \A i \in p..(p + n - 1) : ~IsLineTerminator(s[i])})

\* Twitch.isWhisperCommand with the message part of the pattern left out.
WhisperTestMissingMessage(message) ==
  /\ StartsWith(message, <<"/", "w", " ">>)
  /\ \E k \in 1..Len(message) :
       /\ Len(message) >= 3 + k + 1
       /\ \A i \in 4..(3 + k) : ~IsWhitespace(message[i])
       /\ message[3 + k + 1] = " "

\* Twitch.isWhisperCommand: WhisperRegExp.test(message) with Libs/Twitch's own
\* pattern  ^\/w \S+ .+  (no captures): some split of the message matches.
isWhisperCommand(message) ==
  /\ StartsWith(message, <<"/", "w", " ">>)
  /\ \E k \in 1..Len(message) :
       /\ Len(message) >= 3 + k + 2
       /\ \A i \in 4..(3 + k) : ~IsWhitespace(message[i])
       /\ message[3 + k + 1] = " "
       /\ ~IsLineTerminator(message[3 + k + 2])

\* message.match(WhisperRegExp) in Channel, pattern  ^\/w (\S+) (.+) : no match,
\* or the two captures; both quantifiers are greedy, so \S+ takes the longest
\* split that lets the rest match and .+ runs to the end of the line.
MatchWhisperRegExp(message) ==
  IF WhisperSplits(message) = {} THEN [matched |-> FALSE]
  ELSE LET k == Max(WhisperSplits(message))
           n == DotRun(message, 3 + k + 2)
       IN [matched  |-> TRUE,
           username |-> SubStr(message, 4, 3 + k),
           whisper  |-> SubStr(message, 3 + k + 2, 3 + k + 1 + n)]

(* ------------------------------- state -------------------------------- *)

VARIABLES
  channel,              \* props.channel: NullStr or the channel's name
  chatRef,              \* chatClient.current is set (the Chat container is mounted)
  conn,                 \* life-cycle state of the connection
  attempts,             \* failed reconnection attempts of the current cycle
  lostEvents,           \* ConnectionLost status events emitted in the current session
  roomState,            \* props.roomState: NullRoomState or the channel's mode flags
  lastFrame,            \* the inbound frame the last step processed, if it processed one
  inputValue,           \* state.inputValue
  history,              \* props.history, newest first
  nextWhisperRecipient, \* chatClient.nextWhisperRecipient
  calls,                \* the entry-point calls made so far, in call order
  sent,                 \* the commands handed to the chat client, in order
  token,                \* Twitch.token: NullStr (null or undefined) or the token
  userId,               \* Twitch.userId: NullStr or the user's id
  requests,             \* the network requests Twitch.fetch has made, in order
  ignored,              \* the user ids passed to props.ignoreUser
  historyIndex,         \* props.historyIndex
  isMod,                \* props.isMod
  loginDetails,         \* props.loginDetails: NullStr or the user's name
  returned              \* the last call of a synchronous method: its arguments and result

vars == <<channel, chatRef, conn, attempts, lostEvents, roomState, lastFrame,
          inputValue, history, nextWhisperRecipient, calls, sent,
          token, userId, requests, ignored, historyIndex, isMod, loginDetails,
          returned>>

connVars == <<conn, attempts, lostEvents>>
chatVars == <<inputValue, history, nextWhisperRecipient, calls, sent>>
authVars == <<token, userId, requests, ignored>>
propVars == <<historyIndex, isMod, loginDetails, returned>>

(* ----------------------------- room state ----------------------------- *)

Flags == {"r9k", "slow", "followersOnly", "subsOnly", "emoteOnly"}

\* Delays a room-state frame announces for slow mode; 0 announces it off.
SlowDelays == {0, 30, TwitchSlowDefault}

\* _.isNil(roomState): no room state is known yet.
NullRoomState == [null |-> TRUE]

\* The all-off state of a newly joined channel.
DefaultRoomState ==
  [r9k |-> FALSE, slow |-> FALSE, slowDelay |-> 0,
   followersOnly |-> FALSE, subsOnly |-> FALSE, emoteOnly |-> FALSE]

NoFlags == [f \in {} |-> FALSE]

\* The flags a room-state frame carries: a value for each flag it mentions
\* (for "slow" the delay in seconds).
FrameFlags ==
  {b @@ d : b \in UNION {[D -> BOOLEAN] : D \in SUBSET (Flags \ {"slow"})},
            d \in {NoFlags} \cup {[k \in {"slow"} |-> delay] : delay \in SlowDelays}}

NoFrame == [kind |-> "none", flags |-> NoFlags]
ChatMessageFrame == [kind |-> "chat", flags |-> NoFlags]
RoomStateFrames == {[kind |-> "roomstate", flags |-> f] : f \in FrameFlags \ {NoFlags}}

\* A reducer that rebuilds the state from the frame alone.
ApplyResetsUnmentioned(rs, flags) ==
  LET has(k) == k \in DOMAIN flags
  IN [r9k           |-> IF has("r9k") THEN flags["r9k"] ELSE FALSE,
      slow          |-> IF has("slow") THEN flags["slow"] > 0 ELSE FALSE,
      slowDelay     |-> IF has("slow") THEN flags["slow"] ELSE 0,
      followersOnly |-> IF has("followersOnly") THEN flags["followersOnly"] ELSE FALSE,
      subsOnly      |-> IF has("subsOnly") THEN flags["subsOnly"] ELSE FALSE,
      emoteOnly     |-> IF has("emoteOnly") THEN flags["emoteOnly"] ELSE FALSE]

\* Room State Tracker, apply(frame): the next state takes the flags the frame
\* mentions from the frame and every other flag from the previous state.
ApplyRoomState(rs, flags) ==
  LET has(k) == k \in DOMAIN flags
  IN [r9k           |-> IF has("r9k") THEN flags["r9k"] ELSE rs.r9k,
      slow          |-> IF has("slow") THEN flags["slow"] > 0 ELSE rs.slow,
      slowDelay     |-> IF has("slow") THEN flags["slow"] ELSE rs.slowDelay,
      followersOnly |-> IF has("followersOnly") THEN flags["followersOnly"] ELSE rs.followersOnly,
      subsOnly      |-> IF has("subsOnly") THEN flags["subsOnly"] ELSE rs.subsOnly,
      emoteOnly     |-> IF has("emoteOnly") THEN flags["emoteOnly"] ELSE rs.emoteOnly]

\* The room states the server can have announced for a joined channel.
AnnouncedRoomStates == {ApplyRoomState(DefaultRoomState, f) : f \in FrameFlags}

(* -------------------------------- Init -------------------------------- *)

\* No synchronous method has returned anything yet.
NoReturn == [fn |-> "none"]

\* Twitch's static fields are declared without a value (undefined); the
\* store holds no login, no moderator flag and no position in the history.
InitRest ==
  /\ token = NullStr
  /\ userId = NullStr
  /\ requests = <<>>
  /\ ignored = {}
  /\ historyIndex = -1
  /\ isMod = FALSE
  /\ loginDetails = NullStr
  /\ returned = NoReturn

\* The Channel component after construction: initialState, empty refs, no
\* connection yet, nothing typed and nothing sent.
Init ==
  /\ channel = NullStr
  /\ chatRef = FALSE
  /\ conn = "Idle"
  /\ attempts = 0
  /\ lostEvents = 0
  /\ roomState = NullRoomState
  /\ lastFrame = NoFrame
  /\ inputValue = <<>>
  /\ history = <<>>
  /\ nextWhisperRecipient = NullStr
  /\ calls = <<>>
  /\ sent = <<>>
  /\ InitRest

(* ------------------------- mounting the channel ----------------------- *)

\* componentDidMount: setChannel(channel) puts the channel's name in the store.
SetChannel ==
  /\ isNil(channel)
  /\ channel' = TheChannel
  /\ lastFrame' = NoFrame
  /\ UNCHANGED <<authVars, propVars>>
  /\ UNCHANGED <<chatRef, connVars, roomState, chatVars>>

\* render with a channel: <Chat ref={this.chatClient} /> is mounted.
MountChat ==
  /\ ~isNil(channel)
  /\ ~chatRef
  /\ chatRef' = TRUE
  /\ lastFrame' = NoFrame
  /\ UNCHANGED <<authVars, propVars>>
  /\ UNCHANGED <<channel, connVars, roomState, chatVars>>

(* ------------------------ connection life cycle ----------------------- *)

\* Idle --connect(channel)--> Connecting; also the fresh explicit connect
\* that is required after Disconnected.
Connect ==
  /\ conn \in {"Idle", "Disconnected"}
  /\ chatRef
  /\ conn' = "Connecting"
  /\ attempts' = 0
  /\ lostEvents' = 0
  /\ lastFrame' = NoFrame
  /\ UNCHANGED <<authVars, propVars>>
  /\ UNCHANGED <<channel, chatRef, roomState, chatVars>>

\* Connecting --transport-open--> Authenticating, or Disconnected with an
\* Unauthenticated failure when the credentials are absent.
TransportOpen(credentials) ==
  /\ conn = "Connecting"
  /\ conn' = IF credentials THEN "Authenticating" ELSE "Disconnected"
  /\ lastFrame' = NoFrame
  /\ UNCHANGED <<authVars, propVars>>
  /\ UNCHANGED <<channel, chatRef, attempts, lostEvents, roomState, chatVars>>

\* Authenticating --ack--> Joining, or Disconnected when the credentials are rejected.
AuthReply(accepted) ==
  /\ conn = "Authenticating"
  /\ conn' = IF accepted THEN "Joining" ELSE "Disconnected"
  /\ lastFrame' = NoFrame
  /\ UNCHANGED <<authVars, propVars>>
  /\ UNCHANGED <<channel, chatRef, attempts, lostEvents, roomState, chatVars>>

\* Joining --join-confirmed--> Ready: the room state starts from the defaults;
\* a state frame bundled with the confirmation is the next RoomStateFrame.
JoinConfirmed ==
  /\ conn = "Joining"
  /\ conn' = "Ready"
  /\ roomState' = DefaultRoomState
  /\ lastFrame' = NoFrame
  /\ UNCHANGED <<authVars, propVars>>
  /\ UNCHANGED <<channel, chatRef, attempts, lostEvents, chatVars>>

\* Ready --transport-closed / keep-alive-timeout--> Reconnecting.
TransportClosed ==
  /\ conn = "Ready"
  /\ conn' = "Reconnecting"
  /\ attempts' = 0
  /\ lastFrame' = NoFrame
  /\ UNCHANGED <<authVars, propVars>>
  /\ UNCHANGED <<channel, chatRef, lostEvents, roomState, chatVars>>

\* A failed attempt that surfaces ConnectionLost each time.
LostEventsPerAttempt(n, events) == events + 1

\* ConnectionLost events after the n-th failed attempt of a cycle: one more
\* when that attempt exhausts the cycle, none otherwise.
LostEventsAfterFailure(n, events) ==
  IF n >= ReconnectAttempts THEN events + 1 ELSE events

\* One reconnection attempt fails; the last one ends the cycle in Disconnected.
ReconnectFailed ==
  /\ conn = "Reconnecting"
  /\ attempts < ReconnectAttempts
  /\ attempts' = attempts + 1
  /\ conn' = IF attempts + 1 >= ReconnectAttempts THEN "Disconnected" ELSE "Reconnecting"
  /\ lostEvents' = LostEventsAfterFailure(attempts + 1, lostEvents)
  /\ lastFrame' = NoFrame
  /\ UNCHANGED <<authVars, propVars>>
  /\ UNCHANGED <<channel, chatRef, roomState, chatVars>>

\* A reconnection attempt succeeds: the connection is Ready again.
ReconnectSucceeded ==
  /\ conn = "Reconnecting"
  /\ attempts < ReconnectAttempts
  /\ conn' = "Ready"
  /\ attempts' = 0
  /\ lastFrame' = NoFrame
  /\ UNCHANGED <<authVars, propVars>>
  /\ UNCHANGED <<channel, chatRef, lostEvents, roomState, chatVars>>

\* Any state --explicit disconnect--> Idle: transport closed, RoomState
\* discarded, the session and its reconnection cycle are over.
Disconnect ==
  /\ conn # "Idle"
  /\ conn' = "Idle"
  /\ attempts' = 0
  /\ lostEvents' = 0
  /\ roomState' = NullRoomState
  /\ lastFrame' = NoFrame
  /\ UNCHANGED <<authVars, propVars>>
  /\ UNCHANGED <<channel, chatRef, chatVars>>

(* --------------------------- inbound frames --------------------------- *)

\* An inbound room-state frame while joined: the tracker applies it.
RoomStateFrame(frame) ==
  /\ conn = "Ready"
  /\ roomState' = ApplyRoomState(roomState, frame.flags)
  /\ lastFrame' = frame
  /\ UNCHANGED <<authVars, propVars>>
  /\ UNCHANGED <<channel, chatRef, connVars, chatVars>>

\* An inbound chat message frame: published, never applied to the room state.
ChatFrame ==
  /\ conn = "Ready"
  /\ lastFrame' = ChatMessageFrame
  /\ UNCHANGED <<authVars, propVars>>
  /\ UNCHANGED <<channel, chatRef, connVars, roomState, chatVars>>

(* --------------------------- the chat client -------------------------- *)

\* twitchClient.readyState(): the transport is Open exactly while the
\* connection accepts commands (Ready).
readyState ==
  CASE conn = "Ready" -> Open
    [] conn \in {"Connecting", "Authenticating", "Joining", "Reconnecting"} -> Connecting
    [] OTHER -> Closed

\* The chat client is present and its readyState is Open.
ClientOpen == chatRef /\ readyState = Open

\* getTwitchClient without the readyState test.
getTwitchClientIgnoringReadyState == chatRef

\* Channel.getTwitchClient: TRUE when it returns the client, FALSE for null.
getTwitchClient ==
  IF chatRef
    THEN IF readyState # Open THEN FALSE ELSE TRUE
    ELSE FALSE

NoCommand == [cmd |-> "none", args |-> <<>>]
Command(cmd, args) == [cmd |-> cmd, args |-> args]

\* Channel.say up to its await: the command it hands to the client, if any.
say(message) ==
  IF getTwitchClient /\ ~isNil(channel)
    THEN Command("say", <<channel, message>>)
    ELSE NoCommand

\* Channel.whisper up to its await: the command it hands to the client, if any.
whisper(username, text) ==
  IF getTwitchClient /\ ~isNil(channel)
    THEN Command("whisper", <<username, text>>)
    ELSE NoCommand

\* A whisper that notes its recipient before it looks for the client.
RecipientSetRegardless(username) == username

\* chatClient.nextWhisperRecipient after Channel.whisper(username, ...).
RecipientAfterWhisper(username) ==
  IF getTwitchClient /\ ~isNil(channel) THEN username ELSE nextWhisperRecipient

\* A client that puts a new command in front of the ones it already holds.
HandToClientFirst(log, entry) == <<entry>> \o log

\* The client takes a command: commands leave in the order they are handed over.
HandToClient(log, entry) == Append(log, entry)

\* A dispatcher with one pending wait per command: registering a call
\* cancels the wait of an earlier call of the same entry point.
RegisterCallSuperseding(cs, c) ==
  Append([i \in DOMAIN cs |->
            IF cs[i].op = c.op /\ cs[i].ack = "wait" /\ c.ack = "wait"
              THEN [cs[i] EXCEPT !.ack = "cancelled"]
              ELSE cs[i]], c)

\* A call of an entry point starts: its own await, next to the earlier ones.
RegisterCall(cs, c) == Append(cs, c)

\* An entry point that throws when it has no client to hand its command to.
ReturnedRejected == "rejected"

\* An entry point that awaits nothing (its guard fails, or there is nothing
\* to send) falls through to its end: the async function's promise resolves.
ReturnedResult == "resolved"

\* The call of entry point op starting now.  isCommand: the call asks for an
\* outbound command; command: what it hands to the client before its first
\* await; returned: the outcome when it has nothing to await.
NewCall(op, isCommand, command) ==
  [op      |-> op,
   command |-> isCommand,
   open    |-> ClientOpen,
   ack     |-> IF command.cmd = "none" THEN "none" ELSE "wait",
   st      |-> IF command.cmd = "none" THEN ReturnedResult ELSE "pending",
   toast   |-> FALSE]

Enter(call, command) ==
  /\ Len(calls) < MaxCalls
  /\ calls' = RegisterCall(calls, call)
  /\ sent' = IF command.cmd = "none" THEN sent
             ELSE HandToClient(sent, [call |-> Len(calls) + 1,
                                      cmd  |-> command.cmd,
                                      args |-> command.args])

\* The command handed to the client by call i.
CommandOf(i) == LET k == CHOOSE k \in DOMAIN sent : sent[k].call = i IN sent[k]

(* ----------------------------- Twitch API ----------------------------- *)

\* enum TwitchApi.
Auth == "Auth"
Badges == "Badges"
Helix == "Helix"
Kraken == "Kraken"
Tmi == "Tmi"
TwitchApi == {Auth, Badges, Helix, Kraken, Tmi}

\* Arguments of setAuthDetails: an id or null; a token, null, or no second
\* argument at all (Omitted).
Omitted == <<"OMITTED">>
UserIds == {NullStr, <<"u">>}
Tokens == {<<"t", "1">>, <<"t", "2">>}

\* A setAuthDetails whose default parameter leaves the stored token alone.
TokenKeptWhenOmitted(tok) == IF tok = Omitted THEN token ELSE tok

\* setAuthDetails(id, token = null): the value Twitch.token gets.
TokenAfterSet(tok) == IF tok = Omitted THEN NullStr ELSE tok

\* Twitch.setAuthDetails.
SetAuthDetails(id, tok) ==
  /\ userId' = id
  /\ token' = TokenAfterSet(tok)
  /\ returned' = [fn |-> "setAuthDetails", id |-> id, token |-> tok]
  /\ lastFrame' = NoFrame
  /\ UNCHANGED <<channel, chatRef, connVars, roomState, chatVars, requests,
                 ignored, historyIndex, isMod, loginDetails>>

MissingToken == "Missing token for authenticated request."
NoError == "none"
NoHeader == <<>>

\* Twitch.getAuthHeader: the error it throws, if it throws.
AuthHeaderError == IF isNil(token) THEN MissingToken ELSE NoError

\* Twitch.getAuthHeader: the Authorization header it returns otherwise.
getAuthHeader(api) == <<IF api = Helix THEN "Bearer" ELSE "OAuth", token>>

\* Twitch.fetch up to its await: the error thrown before any request is made.
FetchError(api, authenticated) == IF authenticated THEN AuthHeaderError ELSE NoError

\* Twitch.fetch: the request handed to the network.
Request(api, endpoint, authenticated) ==
  [api           |-> api,
   endpoint      |-> endpoint,
   authorization |-> IF authenticated THEN getAuthHeader(api) ELSE NoHeader]

\* The requests made once Twitch.fetch has run up to its await.
RequestsAfterFetch(api, endpoint, authenticated) ==
  IF FetchError(api, authenticated) # NoError THEN requests
  ELSE Append(requests, Request(api, endpoint, authenticated))

\* Twitch.fetch has no catch block: a thrown error, a failed request and a
\* response whose status is not 200 all reject its promise.
FetchResult(outcome) == IF outcome = "ok" THEN "resolved" ELSE "rejected"

\* One call of Twitch.fetch starting now.
FetchCall(api, authenticated) ==
  LET error == FetchError(api, authenticated)
  IN [op            |-> "fetch",
      command       |-> FALSE,
      open          |-> ClientOpen,
      api           |-> api,
      authenticated |-> authenticated,
      error         |-> error,
      ack           |-> IF error = NoError THEN "wait" ELSE "none",
      st            |-> IF error = NoError THEN "pending" ELSE FetchResult("error"),
      toast         |-> FALSE]

Endpoints == {<<"user">>}

\* Twitch.fetch up to its await on the network.
Fetch(api, endpoint, authenticated) ==
  /\ Len(calls) < MaxFetches
  /\ calls' = RegisterCall(calls, FetchCall(api, authenticated))
  /\ requests' = RequestsAfterFetch(api, endpoint, authenticated)
  /\ lastFrame' = NoFrame
  /\ UNCHANGED <<channel, chatRef, connVars, roomState, inputValue, history,
                 nextWhisperRecipient, sent, token, userId, ignored, propVars>>

\* How a request ends: a response with status 200, or a failure (no
\* response, or a response with another status).
FetchOutcomes == {"ok", "error"}

\* The response of the request of call i arrives (or the request fails).
FetchSettle(i, outcome) ==
  /\ i \in DOMAIN calls
  /\ calls[i].op = "fetch"
  /\ calls[i].ack = "wait"
  /\ calls' = [calls EXCEPT ![i] = [@ EXCEPT !.ack = outcome, !.st = FetchResult(outcome)]]
  /\ lastFrame' = NoFrame
  /\ UNCHANGED <<channel, chatRef, connVars, roomState, inputValue, history,
                 nextWhisperRecipient, sent, authVars, propVars>>

(* ------------------------------ the input ----------------------------- *)

\* WhisperReplyRegExp  ^\/r  followed by a space.
IsWhisperReply(value) == StartsWith(value, <<"/", "r", " ">>)

\* What the user types in the bounded runs: a chat line, a whisper command,
\* a whisper reply.
TypedInputs == {<<"a">>, <<"/", "w", " ", "a", " ", "a">>, <<"/", "r", " ">>}

\* Values of props.lastWhisperSender: nobody has whispered yet, or somebody has.
WhisperSenders == {<<>>, <<"b">>}

\* Channel.onChangeInputValue, with the lastWhisperSender the props hold.
OnChangeInputValue(value, lastWhisperSender) ==
  /\ inputValue' =
       IF IsWhisperReply(value)
         THEN <<"/", "w", " ">> \o lastWhisperSender
                \o (IF Len(lastWhisperSender) > 0 THEN <<" ">> ELSE <<>>)
         ELSE value
  /\ lastFrame' = NoFrame
  /\ UNCHANGED <<authVars, propVars>>
  /\ UNCHANGED <<channel, chatRef, connVars, roomState, history,
                 nextWhisperRecipient, calls, sent>>

\* Channel.prepareWhisper.
PrepareWhisper(username) ==
  /\ inputValue' = <<"/", "w", " ">> \o username \o <<" ">>
  /\ lastFrame' = NoFrame
  /\ UNCHANGED <<authVars, propVars>>
  /\ UNCHANGED <<channel, chatRef, connVars, roomState, history,
                 nextWhisperRecipient, calls, sent>>

\* addToHistory(message): the newest entry comes first.
AddToHistory(h, message) == <<message>> \o h

(* ----------------------------- the history ---------------------------- *)

\* Messages the history holds in the bounded runs.
HistoryEntries == {<<"a">>, <<"b">>}

\* history[index] of a JavaScript array: indices start at 0 and an index
\* outside the array gives undefined.
Undefined == <<"UNDEFINED">>
At(h, index) == IF index + 1 \in DOMAIN h THEN h[index + 1] ELSE Undefined

RECURSIVE HistoriesUpTo(_)
HistoriesUpTo(n) ==
  IF n = 0 THEN {<<>>}
  ELSE HistoriesUpTo(n - 1)
         \cup {Append(h, e) : h \in {g \in HistoriesUpTo(n - 1) : Len(g) = n - 1},
                              e \in HistoryEntries}

\* A getHistory that lets the index step one past the oldest entry.
PastOldestOffByOne(previous, index) == previous /\ index > Len(history)

\* getHistory: previous && index >= history.length
PastOldest(previous, index) == previous /\ index >= Len(history)

\* getHistory: !previous && index < 0
PastNewest(previous, index) == ~previous /\ index < 0

\* Channel.getHistory(previous).
GetHistory(previous) ==
  LET index == historyIndex + (IF previous THEN 1 ELSE -1)
  IN /\ IF PastOldest(previous, index)
          THEN /\ historyIndex' = historyIndex
               /\ returned' = [fn |-> "getHistory", previous |-> previous, value |-> NullStr]
          ELSE IF PastNewest(previous, index)
            THEN /\ historyIndex' = -1
                 /\ returned' = [fn |-> "getHistory", previous |-> previous, value |-> <<>>]
            ELSE /\ historyIndex' = index
                 /\ returned' = [fn |-> "getHistory", previous |-> previous,
                                 value |-> At(history, index)]
     /\ lastFrame' = NoFrame
     /\ UNCHANGED <<channel, chatRef, connVars, roomState, chatVars, authVars,
                    isMod, loginDetails>>

(* ----------------------------- moderation ----------------------------- *)

\* SerializedChatter, as far as canModerate reads it.
Chatters == [isBroadcaster : BOOLEAN, isSelf : BOOLEAN, isMod : BOOLEAN]

\* Values of props.loginDetails: not logged in, or the user's name.
LoginNames == {NullStr, TheChannel, <<"b">>}

\* A canModerate that forgets that moderators are out of a moderator's reach.
canModerateOtherMods(chatter) ==
  LET userIsBroadcaster == ~isNil(loginDetails) /\ ~isNil(channel) /\ loginDetails = channel
  IN \/ (isMod /\ userIsBroadcaster /\ ~chatter.isSelf)
     \/ (isMod /\ ~chatter.isSelf /\ ~chatter.isBroadcaster)

\* Channel.canModerate.
canModerate(chatter) ==
  LET userIsBroadcaster == ~isNil(loginDetails) /\ ~isNil(channel) /\ loginDetails = channel
      chatterIsBroadcaster == chatter.isBroadcaster
      chatterIsSelf == chatter.isSelf
      chatterIsMod == chatter.isMod
  IN \/ (isMod /\ userIsBroadcaster /\ ~chatterIsSelf)
     \/ (isMod /\ ~chatterIsSelf /\ ~chatterIsBroadcaster /\ ~chatterIsMod)

\* A chatter's card asks whether the user can moderate them.
CanModerate(chatter) ==
  /\ returned' = [fn |-> "canModerate", chatter |-> chatter, value |-> canModerate(chatter)]
  /\ lastFrame' = NoFrame
  /\ UNCHANGED <<channel, chatRef, connVars, roomState, chatVars, authVars,
                 historyIndex, isMod, loginDetails>>

(* ---------------------------- entry points ---------------------------- *)

\* Channel.sendMessage up to its first await.
SendMessage ==
  LET message == inputValue
      matches == MatchWhisperRegExp(message)
      guarded == getTwitchClient /\ ~isNil(channel)
      asWhisper == guarded /\ isWhisperCommand(message) /\ matches.matched
      command ==
        IF ~guarded THEN NoCommand
        ELSE IF isWhisperCommand(message)
          THEN IF matches.matched THEN whisper(matches.username, matches.whisper)
               ELSE NoCommand
          ELSE say(message)
  IN /\ Enter(NewCall("sendMessage", TRUE, command), command)
     /\ nextWhisperRecipient' =
          IF asWhisper THEN RecipientAfterWhisper(matches.username)
          ELSE nextWhisperRecipient
     \* nothing was awaited inside the try block: the input is reset at once
     /\ inputValue' = IF guarded /\ command.cmd = "none" THEN <<>> ELSE inputValue
     /\ lastFrame' = NoFrame
     /\ UNCHANGED <<authVars, propVars>>
     /\ UNCHANGED <<channel, chatRef, connVars, roomState, history>>

ActionTypes == {"say", "whisper", "prepare", "open"}

\* What Action.parse makes of the configured action: this text (a whisper
\* command, so that a "prepare" action lets sendMessage whisper), or an
\* exception (Throws).
ActionTexts == {<<"/", "w", " ", "a", " ", "a">>}
Throws == <<"THROWS">>

\* Channel.handleAction up to its first await.  chatter: a chatter is given
\* (or focused); text: what Action.parse returns, or Throws.
HandleAction(type, recipient, chatter, text) ==
  LET entered == ~isNil(channel) /\ chatter
      parsed == text # Throws
      command ==
        IF ~entered \/ ~parsed THEN NoCommand
        ELSE IF type = "say" THEN say(text)
        ELSE IF type = "whisper" /\ ~isNil(recipient) THEN whisper(recipient, text)
        ELSE NoCommand
      isCommand == chatter /\ parsed
                     /\ (type = "say" \/ (type = "whisper" /\ ~isNil(recipient)))
      call == [NewCall("handleAction", isCommand, command)
                 EXCEPT !.toast = entered /\ ~parsed]
  IN /\ Enter(call, command)
     /\ nextWhisperRecipient' =
          IF entered /\ parsed /\ type = "whisper" /\ ~isNil(recipient)
            THEN RecipientAfterWhisper(recipient)
            ELSE nextWhisperRecipient
     /\ inputValue' = IF entered /\ parsed /\ type = "prepare" THEN text ELSE inputValue
     /\ lastFrame' = NoFrame
     /\ UNCHANGED <<authVars, propVars>>
     /\ UNCHANGED <<channel, chatRef, connVars, roomState, history>>

\* Channel.timeout up to its await.
Timeout(username, duration) ==
  LET command == IF getTwitchClient /\ ~isNil(channel)
                   THEN Command("timeout", <<channel, username, duration>>)
                   ELSE NoCommand
  IN /\ Enter(NewCall("timeout", TRUE, command), command)
     /\ lastFrame' = NoFrame
     /\ UNCHANGED <<authVars, propVars>>
     /\ UNCHANGED <<channel, chatRef, connVars, roomState, inputValue, history,
                    nextWhisperRecipient>>

\* Channel.ban up to its await.
Ban(username) ==
  LET command == IF getTwitchClient /\ ~isNil(channel)
                   THEN Command("ban", <<channel, username>>)
                   ELSE NoCommand
  IN /\ Enter(NewCall("ban", TRUE, command), command)
     /\ lastFrame' = NoFrame
     /\ UNCHANGED <<authVars, propVars>>
     /\ UNCHANGED <<channel, chatRef, connVars, roomState, inputValue, history,
                    nextWhisperRecipient>>

\* Users a moderation panel can block, by id.
TargetIds == {<<"7">>}

\* Twitch.blockUser: the endpoint of its request.
BlockEndpoint(targetId) == <<"users", userId, "blocks", targetId>>

\* Channel.block up to its await on Twitch.blockUser, which runs Twitch.fetch
\* (Kraken, authenticated, PUT) up to the network request.  An error thrown
\* before the request is caught by block's catch block at once.
Block(targetId) ==
  LET error == FetchError(Kraken, TRUE)
      call == [op      |-> "block",
               command |-> FALSE,
               open    |-> ClientOpen,
               target  |-> targetId,
               ack     |-> IF error = NoError THEN "wait" ELSE "none",
               st      |-> IF error = NoError THEN "pending" ELSE ReturnedResult,
               toast   |-> FALSE]
  IN /\ Len(calls) < MaxCalls
     /\ calls' = RegisterCall(calls, call)
     /\ requests' = RequestsAfterFetch(Kraken, BlockEndpoint(targetId), TRUE)
     /\ lastFrame' = NoFrame
     /\ UNCHANGED <<channel, chatRef, connVars, roomState, inputValue, history,
                    nextWhisperRecipient, sent, token, userId, ignored, propVars>>

\* A toggle that always asks for the mode to be enabled.
ToggleCommandBlind(on, offCommand, onCommand) == onCommand

\* A toggle that flips on what it has asked for before, not on the room
\* state: enable first, disable once enable has been sent.
ToggleCommandFlipping(on, offCommand, onCommand) ==
  IF \E k \in DOMAIN sent : sent[k].cmd = onCommand.cmd THEN offCommand ELSE onCommand

\* The branch every toggle takes on the current flag of the room state.
ToggleCommand(on, offCommand, onCommand) == IF on THEN offCommand ELSE onCommand

\* A toggle that also flips the flag locally, ahead of the server's frame.
ToggleOptimistic(op, flag, offCmd, onCmd, onArgs) ==
  LET sends == getTwitchClient /\ ~isNil(channel) /\ roomState # NullRoomState
      command ==
        IF sends
          THEN ToggleCommand(roomState[flag],
                             Command(offCmd, <<channel>>),
                             Command(onCmd, <<channel>> \o onArgs))
          ELSE NoCommand
  IN /\ Enter(NewCall(op, TRUE, command), command)
     /\ roomState' = IF sends THEN [roomState EXCEPT ![flag] = ~@] ELSE roomState
     /\ lastFrame' = NoFrame
     /\ UNCHANGED <<authVars, propVars>>
     /\ UNCHANGED <<channel, chatRef, connVars, inputValue, history,
                    nextWhisperRecipient>>

\* A mode toggle up to its await.
Toggle(op, flag, offCmd, onCmd, onArgs) ==
  LET command ==
        IF getTwitchClient /\ ~isNil(channel) /\ roomState # NullRoomState
          THEN ToggleCommand(roomState[flag],
                             Command(offCmd, <<channel>>),
                             Command(onCmd, <<channel>> \o onArgs))
          ELSE NoCommand
  IN /\ Enter(NewCall(op, TRUE, command), command)
     /\ lastFrame' = NoFrame
     /\ UNCHANGED <<authVars, propVars>>
     /\ UNCHANGED <<channel, chatRef, connVars, roomState, inputValue, history,
                    nextWhisperRecipient>>

\* Channel.toggleR9k.
ToggleR9k == Toggle("toggleR9k", "r9k", "r9kbetaoff", "r9kbeta", <<>>)

\* Channel.toggleSlowMode: enabling uses Twitch's default delay.
ToggleSlowMode == Toggle("toggleSlowMode", "slow", "slowoff", "slow", <<TwitchSlowDefault>>)

\* Channel.toggleFollowersOnly.
ToggleFollowersOnly ==
  Toggle("toggleFollowersOnly", "followersOnly", "followersonlyoff", "followersonly", <<>>)

\* Channel.toggleSubsOnly.
ToggleSubsOnly == Toggle("toggleSubsOnly", "subsOnly", "subscribersoff", "subscribers", <<>>)

\* Channel.toggleEmoteOnly.
ToggleEmoteOnly == Toggle("toggleEmoteOnly", "emoteOnly", "emoteonlyoff", "emoteonly", <<>>)

(* ---------------------------- continuations --------------------------- *)

\* How the client's promise of a command settles: it resolves, it rejects
\* because no acknowledgement came in time, or it rejects on a send failure.
Outcomes == {"ok", "timeout", "error"}

\* An entry point without a catch block: the rejection reaches the caller.
ResultRethrown(outcome) == IF outcome = "ok" THEN "resolved" ELSE "rejected"

\* timeout, ban and the toggles after their await: catch (error) { // }.
ModerationResult(outcome) == "resolved"

\* sendMessage after its await: catch (error) { // }.
SendMessageResult(outcome) == "resolved"

\* handleAction after its await: the catch block shows a toast and returns.
HandleActionResult(outcome) == "resolved"

\* block after its await: catch (error) { // }.
BlockResult(outcome) == "resolved"

\* A catch block that shows nothing.
NoToast(outcome) == FALSE

\* handleAction's catch block: Toaster.show(...) when the awaited call threw.
HandleActionToast(outcome) == outcome # "ok"

\* A say that records the message whether or not the send went through.
HistoryAlwaysAdded(outcome, message) == AddToHistory(history, message)

\* say after its await: addToHistory(message) once client.say has resolved;
\* a rejection skips it.
HistoryAfterSay(outcome, message) ==
  IF outcome = "ok" THEN AddToHistory(history, message) ELSE history

\* sendMessage after its await: setState({ inputValue: '' }) once the send
\* has resolved; a rejection skips it.
InputAfterSend(outcome) == IF outcome = "ok" THEN <<>> ELSE inputValue

\* The client's promise of call i settles and the entry point resumes.
Settle(i, outcome) ==
  /\ i \in DOMAIN calls
  /\ calls[i].op \notin {"block", "fetch"}
  /\ calls[i].ack = "wait"
  /\ LET op == calls[i].op
         command == CommandOf(i)
         st == CASE op = "sendMessage" -> SendMessageResult(outcome)
                 [] op = "handleAction" -> HandleActionResult(outcome)
                 [] OTHER -> ModerationResult(outcome)
         toast == IF op = "handleAction" THEN HandleActionToast(outcome) ELSE FALSE
     IN /\ calls' = [calls EXCEPT ![i] = [@ EXCEPT !.ack = outcome, !.st = st, !.toast = toast]]
        /\ history' = IF command.cmd = "say"
                        THEN HistoryAfterSay(outcome, command.args[2])
                        ELSE history
        /\ inputValue' = IF op = "sendMessage" THEN InputAfterSend(outcome) ELSE inputValue
  /\ lastFrame' = NoFrame
  /\ UNCHANGED <<authVars, propVars>>
  /\ UNCHANGED <<channel, chatRef, connVars, roomState, nextWhisperRecipient, sent>>

\* The response to block's request arrives, or the request fails, and block
\* resumes: props.ignoreUser(ignoredUser.user._id) with the user the
\* response names (the blocked one), or the empty catch block.
BlockSettle(i, outcome) ==
  /\ i \in DOMAIN calls
  /\ calls[i].op = "block"
  /\ calls[i].ack = "wait"
  /\ calls' = [calls EXCEPT ![i] = [@ EXCEPT !.ack = outcome, !.st = BlockResult(outcome)]]
  /\ ignored' = IF outcome = "ok" THEN ignored \cup {calls[i].target} ELSE ignored
  /\ lastFrame' = NoFrame
  /\ UNCHANGED <<channel, chatRef, connVars, roomState, inputValue, history,
                 nextWhisperRecipient, sent, token, userId, requests, propVars>>

Lifecycle ==
  \/ SetChannel
  \/ MountChat
  \/ Connect
  \/ \E credentials \in BOOLEAN : TransportOpen(credentials)
  \/ \E accepted \in BOOLEAN : AuthReply(accepted)
  \/ JoinConfirmed
  \/ TransportClosed
  \/ ReconnectFailed
  \/ ReconnectSucceeded
  \/ Disconnect

NextInbound ==
  \/ Lifecycle
  \/ \E frame \in RoomStateFrames : RoomStateFrame(frame)
  \/ ChatFrame

SpecInbound == Init /\ [][NextInbound]_vars

Toggles ==
  \/ ToggleR9k
  \/ ToggleSlowMode
  \/ ToggleFollowersOnly
  \/ ToggleSubsOnly
  \/ ToggleEmoteOnly

\* Every entry point of the command surface; the input holds what a
\* "prepare" action has put there.
Next ==
  \/ Lifecycle
  \/ SendMessage
  \/ \E type \in ActionTypes, recipient \in {NullStr} \cup Users,
        chatter \in BOOLEAN, text \in ActionTexts \cup {Throws} :
       HandleAction(type, recipient, chatter, text)
  \/ \E username \in Users, duration \in Durations : Timeout(username, duration)
  \/ \E username \in Users : Ban(username)
  \/ Toggles
  \/ \E i \in 1..MaxCalls, outcome \in Outcomes : Settle(i, outcome)


Spec == Init /\ [][Next]_vars

\* A joined channel in one of the room states the server can have announced.
InitModes ==
  /\ channel = TheChannel
  /\ chatRef = TRUE
  /\ conn = "Ready"
  /\ attempts = 0
  /\ lostEvents = 0
  /\ roomState \in AnnouncedRoomStates
  /\ lastFrame = NoFrame
  /\ inputValue = <<>>
  /\ history = <<>>
  /\ nextWhisperRecipient = NullStr
  /\ calls = <<>>
  /\ sent = <<>>
  /\ InitRest

\* The mode toggles while the transport comes and goes.
NextModes ==
  \/ Toggles
  \/ \E i \in 1..MaxCalls, outcome \in Outcomes : Settle(i, outcome)
  \/ TransportClosed
  \/ ReconnectSucceeded

SpecModes == InitModes /\ [][NextModes]_vars

\* A joined channel with some text typed in the input.
InitInput ==
  /\ channel = TheChannel
  /\ chatRef = TRUE
  /\ conn = "Ready"
  /\ attempts = 0
  /\ lostEvents = 0
  /\ roomState = DefaultRoomState
  /\ lastFrame = NoFrame
  /\ inputValue \in StringsUpTo(MaxLen)
  /\ history = <<>>
  /\ nextWhisperRecipient = NullStr
  /\ calls = <<>>
  /\ sent = <<>>
  /\ InitRest

\* One submission of the typed input.
NextInput ==
  \/ (calls = <<>> /\ SendMessage)
  \/ \E i \in 1..MaxCalls, outcome \in Outcomes : Settle(i, outcome)

SpecInput == InitInput /\ [][NextInput]_vars

\* A joined channel whose modes are all off, with nothing typed yet.
InitEntry ==
  /\ channel = TheChannel
  /\ chatRef = TRUE
  /\ conn = "Ready"
  /\ attempts = 0
  /\ lostEvents = 0
  /\ roomState = DefaultRoomState
  /\ lastFrame = NoFrame
  /\ inputValue = <<>>
  /\ history = <<>>
  /\ nextWhisperRecipient = NullStr
  /\ calls = <<>>
  /\ sent = <<>>
  /\ InitRest

\* The user logs in and out, the transport comes and goes, and every entry
\* point of the Channel is used, block included.
NextEntry ==
  \/ SetAuthDetails(<<"u">>, <<"t", "1">>)
  \/ SetAuthDetails(NullStr, Omitted)
  \/ TransportClosed
  \/ ReconnectSucceeded
  \/ SendMessage
  \/ \E type \in ActionTypes, recipient \in {NullStr} \cup Users,
        chatter \in BOOLEAN, text \in ActionTexts \cup {Throws} :
       HandleAction(type, recipient, chatter, text)
  \/ \E username \in Users, duration \in Durations : Timeout(username, duration)
  \/ \E username \in Users : Ban(username)
  \/ \E targetId \in TargetIds : Block(targetId)
  \/ Toggles
  \/ \E i \in 1..MaxCalls, outcome \in Outcomes : Settle(i, outcome)
  \/ \E i \in 1..MaxCalls, outcome \in Outcomes : BlockSettle(i, outcome)

SpecEntry == InitEntry /\ [][NextEntry]_vars

\* The user types, prepares whispers, submits and runs a whisper action
\* while the transport comes and goes.
NextTyping ==
  \/ \E value \in TypedInputs, lastWhisperSender \in WhisperSenders :
       OnChangeInputValue(value, lastWhisperSender)
  \/ \E username \in Users : PrepareWhisper(username)
  \/ SendMessage
  \/ \E recipient \in Users, text \in ActionTexts :
       HandleAction("whisper", recipient, TRUE, text)
  \/ \E i \in 1..MaxCalls, outcome \in Outcomes : Settle(i, outcome)
  \/ TransportClosed
  \/ ReconnectSucceeded

SpecTyping == InitEntry /\ [][NextTyping]_vars

\* The auth collaborator sets and resets the credentials while requests are
\* made on every API, authenticated or not.
NextAuth ==
  \/ \E id \in UserIds, tok \in Tokens \cup {NullStr, Omitted} : SetAuthDetails(id, tok)
  \/ \E api \in TwitchApi, endpoint \in Endpoints, authenticated \in BOOLEAN :
       Fetch(api, endpoint, authenticated)
  \/ \E i \in 1..MaxFetches, outcome \in FetchOutcomes : FetchSettle(i, outcome)

SpecAuth == Init /\ [][NextAuth]_vars

\* A channel with some history and the index somewhere in it.
InitHistory ==
  /\ channel = TheChannel
  /\ chatRef = TRUE
  /\ conn = "Ready"
  /\ attempts = 0
  /\ lostEvents = 0
  /\ roomState = DefaultRoomState
  /\ lastFrame = NoFrame
  /\ inputValue = <<>>
  /\ history \in HistoriesUpTo(MaxHistory)
  /\ nextWhisperRecipient = NullStr
  /\ calls = <<>>
  /\ sent = <<>>
  /\ token = NullStr
  /\ userId = NullStr
  /\ requests = <<>>
  /\ ignored = {}
  /\ historyIndex \in -1 .. (Len(history) - 1)
  /\ isMod = FALSE
  /\ loginDetails = NullStr
  /\ returned = NoReturn

\* The user walks through the history with the arrow keys.
NextHistory == \E previous \in BOOLEAN : GetHistory(previous)

SpecHistory == InitHistory /\ [][NextHistory]_vars

\* Any login, any moderator flag, with or without a channel.
InitModerate ==
  /\ channel \in {NullStr, TheChannel}
  /\ chatRef = FALSE
  /\ conn = "Idle"
  /\ attempts = 0
  /\ lostEvents = 0
  /\ roomState = NullRoomState
  /\ lastFrame = NoFrame
  /\ inputValue = <<>>
  /\ history = <<>>
  /\ nextWhisperRecipient = NullStr
  /\ calls = <<>>
  /\ sent = <<>>
  /\ token = NullStr
  /\ userId = NullStr
  /\ requests = <<>>
  /\ ignored = {}
  /\ historyIndex = -1
  /\ isMod \in BOOLEAN
  /\ loginDetails \in LoginNames
  /\ returned = NoReturn

NextModerate == \E chatter \in Chatters : CanModerate(chatter)

SpecModerate == InitModerate /\ [][NextModerate]_vars

(* ------------------------------- claims ------------------------------- *)

\* C1: a command is handed to the chat client only by a call that found the
\* client present with readyState Open: a call made without it never has a
\* command in the client's log, neither at once nor after the connection
\* has become ready.
C1_NoCommandUnlessOpen ==
  \A k \in DOMAIN sent : calls[sent[k].call].open

\* A command was dropped while the client was not open, the connection then
\* became ready, a later call's command went out, and the dropped one did not.
C1_Witness ==
  \E i, j \in DOMAIN calls :
    /\ i < j
    /\ calls[i].command /\ ~calls[i].open
    /\ calls[j].open /\ calls[j].ack # "none"
    /\ \A k \in DOMAIN sent : sent[k].call # i

\* C2 as stated: a command issued while the connection is not Ready fails
\* with an error reported to its caller (the call's promise rejects).
C2_Original ==
  \A i \in DOMAIN calls :
    (calls[i].command /\ ~calls[i].open) => calls[i].st = "rejected"

\* C2 amended: a command issued while the connection is not Ready is dropped
\* silently: the call completes at once and normally, nothing is handed to
\* the client and no error is shown or reported.
C2_DroppedSilently ==
  \A i \in DOMAIN calls :
    (calls[i].command /\ ~calls[i].open) =>
      /\ calls[i].st = "resolved"
      /\ calls[i].ack = "none"
      /\ ~calls[i].toast

\* A moderation command and a chat command were both dropped that way.
C2_Witness ==
  /\ \E i \in DOMAIN calls :
       calls[i].op = "timeout" /\ ~calls[i].open /\ calls[i].st = "resolved"
  /\ \E i \in DOMAIN calls :
       calls[i].op = "sendMessage" /\ ~calls[i].open /\ calls[i].st = "resolved"

\* The inputs of the form  /w <user> <message> : user is a non-empty run of
\* non-whitespace characters, one space follows it, and message is the
\* non-empty rest of the line.
WhisperForms(s) ==
  IF ~StartsWith(s, <<"/", "w", " ">>) THEN {}
  ELSE {<<SubStr(s, 4, p[1]), SubStr(s, p[1] + 2, p[2])>> :
          p \in {q \in (4..Len(s)) \X (4..Len(s)) :
                   /\ q[1] + 2 <= q[2]
                   /\ \A x \in 4..q[1] : ~IsWhitespace(s[x])
                   /\ s[q[1] + 1] = " "
                   /\ \A x \in (q[1] + 2)..q[2] : ~IsLineTerminator(s[x])
                   /\ (q[2] = Len(s) \/ IsLineTerminator(s[q[2] + 1]))}}

\* C3: submitting the input while connected hands exactly one command to the
\* client: whisper(user, message) when the input has the form /w <user>
\* <message>, and say(channel, input) with the whole text when it has not.
C3_Classified ==
  [][(Len(calls') = Len(calls) + 1 /\ calls'[Len(calls')].op = "sendMessage"
        /\ ClientOpen /\ ~isNil(channel)) =>
       /\ Len(sent') = Len(sent) + 1
       /\ SubSeq(sent', 1, Len(sent)) = sent
       /\ LET new == sent'[Len(sent')]
          IN /\ new.call = Len(calls')
             /\ IF WhisperForms(inputValue) # {}
                  THEN /\ new.cmd = "whisper"
                       /\ \A um \in WhisperForms(inputValue) : new.args = um
                  ELSE /\ new.cmd = "say"
                       /\ new.args = <<channel, inputValue>>]_vars

\* A whisper went out to a user whose name has two characters.
C3_Witness ==
  \E k \in DOMAIN sent : sent[k].cmd = "whisper" /\ Len(sent[k].args[1]) = 2

\* The mode each toggle is about and its two commands.
ToggleOps ==
  {"toggleR9k", "toggleSlowMode", "toggleFollowersOnly", "toggleSubsOnly", "toggleEmoteOnly"}

ModeFlag(op) ==
  CASE op = "toggleR9k" -> "r9k"
    [] op = "toggleSlowMode" -> "slow"
    [] op = "toggleFollowersOnly" -> "followersOnly"
    [] op = "toggleSubsOnly" -> "subsOnly"
    [] op = "toggleEmoteOnly" -> "emoteOnly"

DisableCommand(op) ==
  CASE op = "toggleR9k" -> "r9kbetaoff"
    [] op = "toggleSlowMode" -> "slowoff"
    [] op = "toggleFollowersOnly" -> "followersonlyoff"
    [] op = "toggleSubsOnly" -> "subscribersoff"
    [] op = "toggleEmoteOnly" -> "emoteonlyoff"

EnableCommand(op) ==
  CASE op = "toggleR9k" -> "r9kbeta"
    [] op = "toggleSlowMode" -> "slow"
    [] op = "toggleFollowersOnly" -> "followersonly"
    [] op = "toggleSubsOnly" -> "subscribers"
    [] op = "toggleEmoteOnly" -> "emoteonly"

\* The step is a call of entry point op.
IsCallOf(op) == Len(calls') = Len(calls) + 1 /\ calls'[Len(calls')].op = op

\* C4: a toggle issued while connected with a known room state hands exactly
\* one command to the client: the mode's disable command when the mode's
\* flag is on in the current room state, its enable command when it is off.
C4_ToggleByRoomState ==
  [][\A op \in ToggleOps :
       (IsCallOf(op) /\ ClientOpen /\ ~isNil(channel) /\ roomState # NullRoomState) =>
         /\ Len(sent') = Len(sent) + 1
         /\ SubSeq(sent', 1, Len(sent)) = sent
         /\ sent'[Len(sent')].call = Len(calls')
         /\ sent'[Len(sent')].cmd =
              IF roomState[ModeFlag(op)] THEN DisableCommand(op) ELSE EnableCommand(op)]_vars

\* Slow mode was switched off and emote-only mode switched on by toggles.
C4_Witness ==
  /\ \E k \in DOMAIN sent : sent[k].cmd = "slowoff"
  /\ \E k \in DOMAIN sent : sent[k].cmd = "emoteonly"

\* C5 as stated: a timeout command that gets no acknowledgement in time
\* rejects to its caller.
C5_Original ==
  \A i \in DOMAIN calls :
    (calls[i].op = "timeout" /\ calls[i].ack = "timeout") => calls[i].st = "rejected"

\* C5 amended: when a timeout command gets no acknowledgement in time, the
\* client's rejection is swallowed: the call completes normally, nothing is
\* reported, and the room state and the connection state stay as they are.
C5_TimeoutSwallowed ==
  [][\A i \in DOMAIN calls :
       (calls[i].op = "timeout" /\ calls[i].ack = "wait" /\ calls'[i].ack = "timeout") =>
         /\ calls'[i].st = "resolved"
         /\ ~calls'[i].toast
         /\ roomState' = roomState
         /\ conn' = conn]_vars

\* A timeout command ran out of time and its call has completed.
C5_Witness ==
  \E i \in DOMAIN calls :
    calls[i].op = "timeout" /\ calls[i].ack = "timeout" /\ calls[i].st = "resolved"

\* The calls that send chat text, and the ways the client's promise fails.
ChatOps == {"sendMessage", "handleAction"}
Failures == {"timeout", "error"}

SentBy(i) == {k \in DOMAIN sent : sent[k].call = i}

\* C6 as stated: a failed send of a Say or Whisper is reported to the caller
\* (the call rejects, or at least an error is shown).
C6_Original ==
  \A i \in DOMAIN calls :
    (calls[i].op \in ChatOps /\ calls[i].ack \in Failures) =>
      (calls[i].st = "rejected" \/ calls[i].toast)

\* C6 amended: a failed send of a Say or Whisper is caught by the entry point
\* and never sent again; handleAction shows an error toast, sendMessage
\* reports nothing and leaves the input as typed; both complete normally.
C6_CaughtNotRetried ==
  /\ [](\A i \in DOMAIN calls :
          (calls[i].op \in ChatOps /\ calls[i].ack \in Failures) =>
            /\ calls[i].st = "resolved"
            /\ calls[i].toast = (calls[i].op = "handleAction")
            /\ Cardinality(SentBy(i)) = 1)
  /\ [][\A i \in DOMAIN calls :
          (calls[i].op \in ChatOps /\ calls[i].ack = "wait" /\ calls'[i].ack \in Failures) =>
            /\ sent' = sent
            /\ inputValue' = inputValue
            /\ history' = history]_vars

\* A send started by sendMessage and one started by handleAction both failed.
C6_Witness ==
  /\ \E i \in DOMAIN calls : calls[i].op = "sendMessage" /\ calls[i].ack = "error"
  /\ \E i \in DOMAIN calls : calls[i].op = "handleAction" /\ calls[i].ack \in Failures

\* C7 as stated: once a second slow-mode command has been issued while the
\* first still waits, the first wait is cancelled and never resolves.
C7_Original ==
  [][\A i, j \in DOMAIN calls :
       (/\ i < j
        /\ calls[i].op = "toggleSlowMode" /\ calls[i].ack = "wait"
        /\ calls[j].op = "toggleSlowMode" /\ calls[j].ack # "none") =>
         calls'[i].ack \notin Outcomes]_vars

\* C7 amended: a second slow-mode command does not touch the first one's
\* wait: issuing it leaves the earlier call pending as it was, and each
\* call's wait ends only with the outcome of its own client promise.
C7_WaitsIndependent ==
  [][\A i \in DOMAIN calls :
       (calls[i].op = "toggleSlowMode" /\ calls[i].ack = "wait") =>
         /\ IsCallOf("toggleSlowMode") => calls'[i] = calls[i]
         /\ calls'[i].ack \in {"wait"} \cup Outcomes]_vars

\* The first slow-mode command resolved after the second had been issued
\* and while the second was still waiting.
C7_Witness ==
  /\ Len(calls) = 2
  /\ calls[1].op = "toggleSlowMode" /\ calls[1].ack = "ok"
  /\ calls[2].op = "toggleSlowMode" /\ calls[2].ack = "wait"
  /\ sent[1].call = 1 /\ sent[2].call = 2

\* C8: a room-state frame sets the flags it mentions and leaves every other
\* flag as it was; a chat message frame leaves the room state as it was.
C8_FrameChangesOnlyMentioned ==
  [][/\ lastFrame'.kind = "chat" => roomState' = roomState
     /\ lastFrame'.kind = "roomstate" =>
          LET f == lastFrame'.flags
          IN /\ \A k \in Flags \ {"slow"} :
                  roomState'[k] = IF k \in DOMAIN f THEN f[k] ELSE roomState[k]
             /\ roomState'.slow = IF "slow" \in DOMAIN f THEN f["slow"] > 0 ELSE roomState.slow
             /\ roomState'.slowDelay =
                  IF "slow" \in DOMAIN f THEN f["slow"] ELSE roomState.slowDelay]_vars

\* Slow mode with delay 30 is still on after a frame that announced
\* followers-only mode and nothing else.
C8_Witness ==
  /\ lastFrame.kind = "roomstate"
  /\ DOMAIN lastFrame.flags = {"followersOnly"}
  /\ roomState # NullRoomState
  /\ roomState.slow /\ roomState.slowDelay = 30 /\ roomState.followersOnly

\* C9: a reconnection cycle that fails in all its attempts emits one
\* ConnectionLost event, when the last attempt has failed and not before,
\* and leaves the connection Disconnected; from there only an explicit
\* connect (or an explicit disconnect to Idle) moves it.
C9_SingleConnectionLost ==
  /\ [](/\ lostEvents = (IF attempts = ReconnectAttempts THEN 1 ELSE 0)
        /\ attempts = ReconnectAttempts => conn \in {"Disconnected", "Idle"})
  /\ [][conn = "Disconnected" => conn' \in {"Disconnected", "Connecting", "Idle"}]_vars

\* Every attempt of a cycle has failed.
C9_Witness ==
  conn = "Disconnected" /\ attempts = ReconnectAttempts /\ lostEvents = 1

\* C10: the client receives the commands in the order of the calls that
\* issued them.
C10_CallOrder ==
  \A k, l \in DOMAIN sent : k < l => sent[k].call < sent[l].call

\* The later of two commands has completed while the earlier still waits.
C10_Witness ==
  /\ Len(sent) = 2
  /\ calls[sent[1].call].ack = "wait"
  /\ calls[sent[2].call].ack = "ok"

\* The entry points of Channel that start a command or a request.
EntryOps == {"sendMessage", "handleAction", "timeout", "ban", "block"} \cup ToggleOps

\* C11: no failure of a client command or request leaves an entry point of
\* Channel as a rejection: a call of sendMessage, handleAction, timeout, ban,
\* block or a mode toggle never rejects, and once what it awaited has
\* settled, whether resolved, rejected or timed out, it has completed normally.
C11_NoFailurePropagates ==
  \A i \in DOMAIN calls :
    calls[i].op \in EntryOps =>
      /\ calls[i].st # "rejected"
      /\ calls[i].ack # "wait" => calls[i].st = "resolved"

\* The request of a block failed and the send of a sendMessage timed out.
C11_Witness ==
  /\ \E i \in DOMAIN calls : calls[i].op = "block" /\ calls[i].ack = "error"
  /\ \E i \in DOMAIN calls : calls[i].op = "sendMessage" /\ calls[i].ack = "timeout"

\* Call i's awaited promise settles in this step with one of the outcomes outs.
SettlesAs(i, outs) == calls[i].ack = "wait" /\ calls'[i].ack \in outs

\* C12: a message counts as delivered exactly when its send resolves.  The
\* step in which a sendMessage's send resolves empties the input and, for a
\* Say, puts the message in the history; the step in which it fails, and the
\* call of sendMessage itself (connected or not), change neither the input
\* nor the history; and the history changes in no step but the one in which
\* a Say resolves.
C12_DeliveredOnResolve ==
  [][/\ \A i \in DOMAIN calls :
          (calls[i].op = "sendMessage" /\ SettlesAs(i, {"ok"})) =>
            /\ inputValue' = <<>>
            /\ history' = IF CommandOf(i).cmd = "say"
                            THEN <<CommandOf(i).args[2]>> \o history
                            ELSE history
     /\ \A i \in DOMAIN calls :
          (calls[i].op = "sendMessage" /\ SettlesAs(i, Failures)) =>
            (inputValue' = inputValue /\ history' = history)
     /\ IsCallOf("sendMessage") => (inputValue' = inputValue /\ history' = history)
     /\ history' # history =>
          \E i \in DOMAIN calls : SettlesAs(i, {"ok"}) /\ CommandOf(i).cmd = "say"]_vars

\* A submission made while the transport was down was dropped, and after the
\* reconnection the typed line was said: it is in the history and the input
\* is empty.
C12_Witness ==
  /\ \E i \in DOMAIN calls : calls[i].op = "sendMessage" /\ ~calls[i].open
  /\ \E j \in DOMAIN calls : calls[j].op = "sendMessage" /\ calls[j].ack = "ok"
  /\ history = << <<"a">> >>
  /\ inputValue = <<>>

\* C13: no outbound command changes the room state: the step in which an
\* entry point is called, and the step in which its command succeeds or
\* fails, leave the room state as it was, so that after a toggle the room
\* state keeps its value until a frame of the server replaces it.
C13_CommandsKeepRoomState ==
  [][calls' # calls => roomState' = roomState]_vars

\* A slow-mode toggle was sent and confirmed, another command was dropped,
\* and the room state still shows slow mode off.
C13_Witness ==
  /\ \E i \in DOMAIN calls : calls[i].op = "toggleSlowMode" /\ calls[i].ack = "ok"
  /\ \E j \in DOMAIN calls : calls[j].command /\ ~calls[j].open
  /\ roomState # NullRoomState
  /\ ~roomState.slow

\* The token the most recent setAuthDetails call has set: NullStr when there
\* was no call yet, or when the call gave null or no token.
LastSetToken ==
  IF returned.fn = "setAuthDetails" /\ returned.token # Omitted
    THEN returned.token
    ELSE NullStr

\* C14: an authenticated request carries the token of the most recent
\* setAuthDetails call, as Bearer for Helix and as OAuth for every other
\* API; when that call set no token (or there was none), the request fails
\* with the missing-token error and nothing is handed to the network.
C14_LatestTokenOrNoRequest ==
  [][(IsCallOf("fetch") /\ calls'[Len(calls')].authenticated) =>
       LET call == calls'[Len(calls')]
       IN IF isNil(LastSetToken)
            THEN /\ requests' = requests
                 /\ call.st = "rejected"
                 /\ call.error = MissingToken
            ELSE /\ Len(requests') = Len(requests) + 1
                 /\ SubSeq(requests', 1, Len(requests)) = requests
                 /\ requests'[Len(requests')].api = call.api
                 /\ requests'[Len(requests')].authorization =
                      <<IF call.api = Helix THEN "Bearer" ELSE "OAuth", LastSetToken>>
                 /\ call.error = NoError]_vars

\* A request went to Helix with the first token; then the token was reset
\* by a setAuthDetails call without a token and the next authenticated
\* request failed before reaching the network.
C14_Witness ==
  /\ Len(requests) = 1
  /\ requests[1].authorization = <<"Bearer", <<"t", "1">> >>
  /\ returned.fn = "setAuthDetails" /\ returned.token = Omitted
  /\ Len(calls) = 2
  /\ calls[2].error = MissingToken

\* C15: toggles of the same mode issued while the room state has not changed
\* all send the same command with the same arguments (all the enable command
\* or all the disable command): the second never undoes the first.
C15_RepeatedToggleSameCommand ==
  \A k, l \in DOMAIN sent :
    (/\ calls[sent[k].call].op \in ToggleOps
     /\ calls[sent[k].call].op = calls[sent[l].call].op) =>
      (sent[k].cmd = sent[l].cmd /\ sent[k].args = sent[l].args)

\* Slow mode was off; a toggle asked for it and was confirmed, no frame has
\* arrived, and a second toggle has asked for it again.
C15_Witness ==
  /\ ~roomState.slow
  /\ Len(sent) = 2
  /\ sent[1].cmd = "slow" /\ sent[2].cmd = "slow"
  /\ calls[sent[1].call].ack = "ok"
  /\ calls[sent[2].call].ack = "wait"

\* C16: the history index stays within -1 .. history.length - 1, and a call
\* of getHistory does one of three things: previous from the oldest entry
\* returns null and leaves the index; next from index 0 or -1 returns the
\* empty string and sets the index to -1; any other call moves the index to
\* the adjacent position and returns the entry there.
C16_HistoryIndexInRange ==
  /\ [](historyIndex \in -1 .. (Len(history) - 1))
  /\ [][returned'.fn = "getHistory" =>
          LET previous == returned'.previous
              value == returned'.value
          IN IF previous /\ historyIndex = Len(history) - 1
               THEN value = NullStr /\ historyIndex' = historyIndex
               ELSE IF ~previous /\ historyIndex \in {0, -1}
                 THEN value = <<>> /\ historyIndex' = -1
                 ELSE /\ historyIndex' = historyIndex + (IF previous THEN 1 ELSE -1)
                      /\ historyIndex' + 1 \in DOMAIN history
                      /\ value = history[historyIndex' + 1]]_vars

\* The walk has reached the oldest of three entries and one more step back
\* has returned null.
C16_Witness ==
  /\ Len(history) = 3
  /\ historyIndex = 2
  /\ returned.fn = "getHistory" /\ returned.previous /\ returned.value = NullStr

\* The calls of sendMessage that handed a command to the client, and the
\* text each of them took from the input.
Submissions == {j \in DOMAIN calls : calls[j].op = "sendMessage" /\ calls[j].ack # "none"}

SubmittedText(j) ==
  IF CommandOf(j).cmd = "say"
    THEN CommandOf(j).args[2]
    ELSE <<"/", "w", " ">> \o CommandOf(j).args[1] \o <<" ">> \o CommandOf(j).args[2]

\* C17: when a send started by sendMessage resolves, text that was put in the
\* input while the send was pending (text no submission has taken) is still
\* in the input afterwards.
C17_PendingTextKept ==
  [][\A i \in DOMAIN calls :
       (/\ calls[i].op = "sendMessage"
        /\ SettlesAs(i, {"ok"})
        /\ inputValue \notin {SubmittedText(j) : j \in Submissions}) =>
         inputValue' = inputValue]_vars

\* The current user is the broadcaster of the channel.
UserIsBroadcaster == ~isNil(loginDetails) /\ loginDetails = channel

\* C18: canModerate(chatter) is true exactly when the user is a moderator,
\* the chatter is not the user, and the user is the broadcaster or the
\* chatter is neither the broadcaster nor a moderator; so never for oneself,
\* never for a user who is no moderator, and never for a moderator who is
\* not the broadcaster on the broadcaster or on another moderator.
C18_CanModerate ==
  returned.fn = "canModerate" =>
    LET chatter == returned.chatter
        value == returned.value
    IN /\ value = (/\ isMod
                   /\ ~chatter.isSelf
                   /\ (UserIsBroadcaster \/ (~chatter.isBroadcaster /\ ~chatter.isMod)))
       /\ chatter.isSelf => ~value
       /\ ~isMod => ~value
       /\ (~UserIsBroadcaster /\ (chatter.isBroadcaster \/ chatter.isMod)) => ~value

\* A moderator who is not the broadcaster asked about another moderator and
\* was refused.
C18_Witness ==
  /\ returned.fn = "canModerate"
  /\ isMod /\ ~UserIsBroadcaster /\ ~isNil(loginDetails)
  /\ returned.chatter.isMod /\ ~returned.chatter.isSelf /\ ~returned.chatter.isBroadcaster
  /\ ~returned.value

\* The whispers the client has been handed, by position in its log.
Whispers == {k \in DOMAIN sent : sent[k].cmd = "whisper"}

\* C19: nextWhisperRecipient is the recipient of the whisper most recently
\* handed to the client, whatever has become of that whisper and of the
\* earlier ones (null before the first); it is set in the step that hands
\* the whisper over, and a step that hands nothing to the client, such as a
\* whisper issued while not connected or a send that fails, leaves it as it was.
C19_NextWhisperRecipient ==
  /\ [](nextWhisperRecipient =
          IF Whispers = {} THEN NullStr ELSE sent[Max(Whispers)].args[1])
  /\ [][sent' = sent => nextWhisperRecipient' = nextWhisperRecipient]_vars

\* A whisper to one user has failed, a whisper to another is pending, and
\* the next recipient is the second one.
C19_Witness ==
  /\ Len(sent) = 2
  /\ sent[1].cmd = "whisper" /\ sent[1].args[1] = <<"b">>
  /\ calls[sent[1].call].ack = "error"
  /\ sent[2].cmd = "whisper" /\ sent[2].args[1] = <<"a">>
  /\ calls[sent[2].call].ack = "wait"
  /\ nextWhisperRecipient = <<"a">>

====
